---- MODULE Spec2Model ----
(***************************************************************************)
(* The list pagination engine `Select` of discourse-ui                     *)
(* (src/discourse-ui/src/select/mod.rs) as a state machine.  One action    *)
(* per public operation (render, height, handle_key, set_at); every        *)
(* private helper is an operator over a record holding the fields of       *)
(* Select, composed in the order the code calls them.                      *)
(*                                                                         *)
(* Indices are 0-based as in the source: a Vec is a function on 0..n-1.    *)
(* Option<T> is a sequence of length 0 (None) or 1 (Some).                 *)
(* A Rust panic (failed unwrap, index out of bounds, checked arithmetic)   *)
(* sets `panicked`; no operation runs on a panicked Select.                *)
(*                                                                         *)
(* Beside it: Layout (inquisition-ui/src/lib.rs) and Prompt                *)
(* (discourse-ui/src/prompt.rs) with a caller that builds them and calls   *)
(* their pure operations, and the event loop Input::run                    *)
(* (ui/src/sync_input.rs) over any prompt.                                 *)
(***************************************************************************)
EXTENDS Integers, Sequences, FiniteSets, TLC

VARIABLES
    list,               \* Select::list, the wrapped List (never mutated)
    first_selectable,   \* Select::first_selectable
    last_selectable,    \* Select::last_selectable
    at,                 \* Select::at
    page_start,         \* Select::page_start
    page_end,           \* Select::page_end
    page_start_height,  \* Select::page_start_height
    page_end_height,    \* Select::page_end_height
    height,             \* Select::height
    heights,            \* Select::heights : Option<Heights>
    panicked,           \* a call panicked
    rendered,           \* the driver's position: a render has returned Ok
    prompt,             \* a Prompt: message_len, hint, delim, hint_len
    prompt_layout,      \* the Layout its caller holds
    ret,                \* the last call on them and the value it returned
    pc,                 \* where Input::run stands
    trace,              \* the events it read and the Prompt methods it called
    hide_cursor,        \* Input::hide_cursor
    terminal_h,         \* Input::terminal_h
    base_row            \* Input::base_row

vars == <<list, first_selectable, last_selectable, at, page_start, page_end,
          page_start_height, page_end_height, height, heights, panicked,
          rendered, prompt, prompt_layout, ret, pc, trace, hide_cursor,
          terminal_h, base_row>>

SelectVars == <<list, first_selectable, last_selectable, at, page_start,
                page_end, page_start_height, page_end_height, height,
                heights, panicked, rendered>>
PromptVars == <<prompt, prompt_layout, ret>>
InputVars == <<pc, trace, hide_cursor, terminal_h, base_row>>

----------------------------------------------------------------------------
(* Bounds of the model *)

MaxLen == 6
MaxSize == 5
MaxSeparators == 1
MaxTall == 1
MaxWidth == 2
MaxLineOffset == 1
MaxExtraPageSize == 0
MaxAnyLen == 3
MaxShortfall == 1
TermHeight == 8

MaxMessageLen == 2
MaxHintLen == 1
MinTermWidth == 4
MaxTermWidth == 5
MaxHeightArg == 2

(* Program constants *)

MinPageSize == 5
U16_MAX == 65535
\* usize::MAX.  It is only compared with indices and incremented; the value
\* stands for 2^64 - 1 (TLC's integers are narrower).
USIZE_MAX == 2147483647

None == <<>>
Some(x) == <<x>>
is_some(o) == Len(o) = 1
unwrap(o) == o[1]

Min(a, b) == IF a <= b THEN a ELSE b
Max(a, b) == IF a >= b THEN a ELSE b

----------------------------------------------------------------------------
(* Layout (inquisition-ui/src/lib.rs) *)

Layout_new(line_offset, size) ==
    [line_offset |-> line_offset, offset_x |-> 0, offset_y |-> 0,
     width |-> size.width, height |-> size.height,
     max_height |-> size.height, render_region |-> "Middle"]

\* The layouts the driver passes to render and height.
InputLayouts ==
    { Layout_new(lo, [width |-> w, height |-> TermHeight]) :
        lo \in 0..MaxLineOffset, w \in 1..MaxWidth }

\* u16 arithmetic of a build without overflow checks.
u16(x) == x % (U16_MAX + 1)

with_render_region(layout, region) ==
    [layout EXCEPT !.render_region = region]

with_max_height(layout, max_height) ==
    [layout EXCEPT !.max_height = max_height]

\* Layout::with_cursor_pos, as the layouts Prompt::render leaves behind show
\* it: the column becomes line_offset and the row offset_y.
with_cursor_pos(layout, cursor_pos) ==
    [layout EXCEPT !.line_offset = cursor_pos[1], !.offset_y = cursor_pos[2]]

line_width(layout) ==
    u16(u16(layout.width - layout.line_offset) - layout.offset_x)

\* Faulty variant of get_start: Middle rounds up.
get_start_middle_ceil(layout, h) ==
    IF h > layout.max_height
    THEN CASE layout.render_region = "Top" -> 0
           [] layout.render_region = "Middle" ->
                  (h - layout.max_height + 1) \div 2
           [] layout.render_region = "Bottom" -> h - layout.max_height
    ELSE 0

get_start(layout, h) ==
    IF h > layout.max_height
    THEN CASE layout.render_region = "Top" -> 0
           [] layout.render_region = "Middle" -> (h - layout.max_height) \div 2
           [] layout.render_region = "Bottom" -> h - layout.max_height
    ELSE 0

RenderRegions == {"Top", "Middle", "Bottom"}

----------------------------------------------------------------------------
(* Prompt (discourse-ui/src/prompt.rs).  A message or a hint is the number  *)
(* of its chars.                                                            *)

Delimiters ==
    {"Parentheses", "Braces", "SquareBracket", "AngleBracket", "Other",
     "None"}

Prompt_new(message) ==
    [message_len |-> message, hint |-> None, delim |-> "Parentheses",
     hint_len |-> 0]

with_hint(p, hint) == [p EXCEPT !.hint_len = hint, !.hint = Some(hint)]

with_delim(p, delim) == [p EXCEPT !.delim = delim]

\* Faulty variant of hint_len: counts a delimiter pair for Delimiter::None.
hint_len_delimited(p) ==
    IF is_some(p.hint) THEN u16(p.hint_len + 2) ELSE 0

hint_len(p) ==
    IF is_some(p.hint)
    THEN IF p.delim = "None" THEN p.hint_len ELSE u16(p.hint_len + 2)
    ELSE 0

width(p) ==
    IF is_some(p.hint)
    THEN u16(2 + p.message_len + 1 + hint_len(p) + 1)
    ELSE u16(2 + p.message_len + 3)

\* Faulty variant of cursor_pos_at: the first wrapped line is row 0.
cursor_pos_at_row_0(layout, w) ==
    IF w > line_width(layout)
    THEN <<u16(w - line_width(layout)) % layout.width,
           u16(w - line_width(layout)) \div layout.width>>
    ELSE <<u16(layout.line_offset + w), 0>>

\* The cursor position of a prompt w cells wide.
cursor_pos_at(layout, w) ==
    IF w > line_width(layout)
    THEN <<u16(w - line_width(layout)) % layout.width,
           1 + (u16(w - line_width(layout)) \div layout.width)>>
    ELSE <<u16(layout.line_offset + w), 0>>

cursor_pos_impl(p, layout) == cursor_pos_at(layout, width(p))

\* Prompt::height: the value returned and the layout left behind.
Prompt_height(p, layout) ==
    [value |-> cursor_pos_impl(p, layout)[2] + 1,
     layout |-> with_cursor_pos(layout, cursor_pos_impl(p, layout))]

----------------------------------------------------------------------------
(* The List capability.  An item is a text of sizes[i] cells that wraps at  *)
(* the layout's width; a separator is an item that is not selectable.       *)

Masks(n) ==
    { m \in [0..(n - 1) -> BOOLEAN] :
        /\ \E i \in 0..(n - 1) : m[i]
        /\ Cardinality({i \in 0..(n - 1) : ~m[i]}) <= MaxSeparators }

Sizes(n) ==
    { z \in [0..(n - 1) -> 1..MaxSize] :
        Cardinality({i \in 0..(n - 1) : z[i] > 1}) <= MaxTall }

Lists ==
    UNION { { [len |-> n, selectable |-> m, sizes |-> z,
               page_size |-> p, should_loop |-> lp] :
                m \in Masks(n), z \in Sizes(n),
                p \in MinPageSize..(MinPageSize + MaxExtraPageSize),
                lp \in BOOLEAN } : n \in 1..MaxLen }

\* Every list a caller may hand to Select::new: empty ones, ones without a
\* selectable item and ones whose page_size is below the minimum included.
AnyLists ==
    UNION { { [len |-> n, selectable |-> m, sizes |-> z,
               page_size |-> p, should_loop |-> lp] :
                m \in [0..(n - 1) -> BOOLEAN], z \in Sizes(n),
                p \in (MinPageSize - MaxShortfall)..MinPageSize,
                lp \in BOOLEAN } : n \in 0..MaxAnyLen }

is_selectable(l, index) == l.selectable[index]

height_at(l, index, layout) ==
    (l.sizes[index] + layout.width - 1) \div layout.width

----------------------------------------------------------------------------
(* Select: construction *)

\* (0..len).position(|i| is_selectable(i)) and .rposition(..): None when no
\* index is selectable.
position(l) ==
    IF \E i \in 0..(l.len - 1) : is_selectable(l, i)
    THEN Some(CHOOSE i \in 0..(l.len - 1) :
                /\ is_selectable(l, i)
                /\ \A j \in 0..(i - 1) : ~is_selectable(l, j))
    ELSE None

\* Faulty variant of rposition: searches from the front.
rposition_from_front(l) == position(l)

rposition(l) ==
    IF \E i \in 0..(l.len - 1) : is_selectable(l, i)
    THEN Some(CHOOSE i \in 0..(l.len - 1) :
                /\ is_selectable(l, i)
                /\ \A j \in (i + 1)..(l.len - 1) : ~is_selectable(l, j))
    ELSE None

\* Faulty variant of Select_new: without the assertion on page_size.
Select_new_any_page_size(l) ==
    LET ok == is_some(position(l))
        fs == IF is_some(position(l)) THEN unwrap(position(l)) ELSE 0
        ls == IF is_some(rposition(l)) THEN unwrap(rposition(l)) ELSE 0
    IN  [list |-> l,
         first_selectable |-> fs,
         last_selectable |-> ls,
         height |-> U16_MAX,
         page_start_height |-> U16_MAX,
         page_end_height |-> U16_MAX,
         heights |-> None,
         at |-> fs,
         page_start |-> 0,
         page_end |-> USIZE_MAX,
         panicked |-> ~ok]

Select_new(l) ==
    LET ok == is_some(position(l)) /\ l.page_size >= MinPageSize
        fs == IF is_some(position(l)) THEN unwrap(position(l)) ELSE 0
        ls == IF is_some(rposition(l)) THEN unwrap(rposition(l)) ELSE 0
    IN  [list |-> l,
         first_selectable |-> fs,
         last_selectable |-> ls,
         height |-> U16_MAX,
         page_start_height |-> U16_MAX,
         page_end_height |-> U16_MAX,
         heights |-> None,
         at |-> fs,
         page_start |-> 0,
         page_end |-> USIZE_MAX,
         panicked |-> ~ok]

Panic(s) == [s EXCEPT !.panicked = TRUE]

----------------------------------------------------------------------------
(* Select: private helpers *)

\* Faulty variant of scan_next: steps to the neighbour without asking
\* whether it is selectable.
scan_next_unchecked(l, i) == (i + 1) % l.len

RECURSIVE scan_next(_, _)
scan_next(l, i) ==
    LET n == (i + 1) % l.len
    IN  IF is_selectable(l, n) THEN n ELSE scan_next(l, n)

\* Faulty variant of next_selectable: clamps at last_selectable even when the
\* list loops.
next_selectable_clamped(s) ==
    IF s.at >= s.last_selectable
    THEN s.last_selectable
    ELSE scan_next(s.list, Min(s.at, s.list.len))

next_selectable(s) ==
    IF s.at >= s.last_selectable
    THEN IF s.list.should_loop THEN s.first_selectable ELSE s.last_selectable
    ELSE scan_next(s.list, Min(s.at, s.list.len))

RECURSIVE scan_prev(_, _)
scan_prev(l, i) ==
    LET n == (l.len + i - 1) % l.len
    IN  IF is_selectable(l, n) THEN n ELSE scan_prev(l, n)

\* Faulty variant of prev_selectable: clamps at first_selectable even when
\* the list loops.
prev_selectable_clamped(s) ==
    IF s.at <= s.first_selectable
    THEN s.first_selectable
    ELSE scan_prev(s.list, Min(s.at, s.list.len))

prev_selectable(s) ==
    IF s.at <= s.first_selectable
    THEN IF s.list.should_loop THEN s.last_selectable ELSE s.first_selectable
    ELSE scan_prev(s.list, Min(s.at, s.list.len))

RECURSIVE sum_heights(_, _)
sum_heights(hs, n) == IF n = 0 THEN 0 ELSE sum_heights(hs, n - 1) + hs[n - 1]

\* TRUE when update_heights(layout) takes the `_ => return` arm.
heights_cached(s, layout) ==
    is_some(s.heights) /\ unwrap(s.heights).prev_layout = layout

\* Faulty variant of update_heights: remembers the layout after its
\* line_offset was cleared instead of the layout it was given.
update_heights_cleared(s, layout) ==
    IF heights_cached(s, layout)
    THEN s
    ELSE LET l0 == [layout EXCEPT !.line_offset = 0]
             hs == [i \in 0..(s.list.len - 1) |-> height_at(s.list, i, l0)]
         IN  [s EXCEPT !.heights = Some([heights |-> hs, prev_layout |-> l0]),
                       !.height = sum_heights(hs, s.list.len)]

\* Faulty variant of update_heights: adds to self.height without setting it
\* to 0 when it replaces a cache.
update_heights_adding(s, layout) ==
    IF heights_cached(s, layout)
    THEN s
    ELSE LET l0 == [layout EXCEPT !.line_offset = 0]
             hs == [i \in 0..(s.list.len - 1) |-> height_at(s.list, i, l0)]
         IN  [s EXCEPT !.heights = Some([heights |-> hs, prev_layout |-> layout]),
                       !.height = (IF is_some(s.heights) THEN s.height ELSE 0)
                                      + sum_heights(hs, s.list.len)]

\* The item heights stay far below u16::MAX, so `self.height += height`
\* cannot overflow.
update_heights(s, layout) ==
    IF heights_cached(s, layout)
    THEN s
    ELSE LET l0 == [layout EXCEPT !.line_offset = 0]
             hs == [i \in 0..(s.list.len - 1) |-> height_at(s.list, i, l0)]
         IN  [s EXCEPT !.heights = Some([heights |-> hs, prev_layout |-> layout]),
                       !.height = sum_heights(hs, s.list.len)]

page_size(s) == s.list.page_size

is_paginating(s) == s.height > page_size(s)

at_outside_page(s) ==
    IF s.page_start < s.page_end
    THEN s.at <= s.page_start \/ s.at >= s.page_end
    ELSE s.at <= s.page_start /\ s.at >= s.page_end

\* Faulty variant of try_get_index: wraps round whether the list loops or
\* not.
try_get_index_wrapping(s, delta) ==
    [index |-> Some((s.at + s.list.len + delta) % s.list.len),
     panicked |-> FALSE]

\* Option<usize>, with `panicked` for the unsigned subtraction of line 245
\* going below zero.
try_get_index(s, delta) ==
    IF delta > 0
    THEN LET res == s.at + delta
         IN  IF res < s.list.len
             THEN [index |-> Some(res), panicked |-> FALSE]
             ELSE IF s.list.should_loop
             THEN [index |-> Some(res - s.list.len), panicked |-> FALSE]
             ELSE [index |-> None, panicked |-> FALSE]
    ELSE LET d == -delta
         IN  IF s.list.should_loop
             THEN IF s.at + s.list.len < d
                  THEN [index |-> None, panicked |-> TRUE]
                  ELSE [index |-> Some((s.at + s.list.len - d) % s.list.len),
                        panicked |-> FALSE]
             ELSE IF s.at >= d
             THEN [index |-> Some(s.at - d), panicked |-> FALSE]
             ELSE [index |-> None, panicked |-> FALSE]

\* The k-th element of `iter` in adjust_page: the neighbour in `direction`,
\* then the one opposite (the special one), then direction * i for
\* i in 2..max_height.
iter_delta(direction, k) ==
    IF k = 1 THEN direction ELSE IF k = 2 THEN -direction ELSE direction * (k - 1)

\* The `for (height_index, opposite_dir) in iter` loop.  acc holds bound_a,
\* bound_b and height; an element that is None is skipped (flatten).
RECURSIVE adjust_loop(_, _, _, _)
adjust_loop(s, direction, k, acc) ==
    LET max_height == page_size(s) - 1
        hs == unwrap(s.heights).heights
    IN  IF k > max_height
        THEN acc
        ELSE LET got == try_get_index(s, iter_delta(direction, k))
                 opposite_dir == (k = 2)
             IN  IF got.panicked
                 THEN [acc EXCEPT !.panicked = TRUE]
                 ELSE IF ~is_some(got.index)
                 THEN adjust_loop(s, direction, k + 1, acc)
                 ELSE IF acc.height >= max_height
                 THEN acc
                 ELSE LET height_index == unwrap(got.index)
                      IN  IF opposite_dir
                          THEN adjust_loop(s, direction, k + 1,
                                   [acc EXCEPT !.b = <<height_index, 1>>,
                                               !.height = @ + 1])
                          ELSE IF height_index >= s.list.len
                          THEN [acc EXCEPT !.panicked = TRUE]
                          ELSE LET elem_height ==
                                       Min(acc.height + hs[height_index], max_height)
                                           - acc.height
                               IN  adjust_loop(s, direction, k + 1,
                                       [acc EXCEPT !.a = <<height_index, elem_height>>,
                                                   !.height = @ + elem_height])

\* Faulty variant of adjust_bounds: the special element is the page_start
\* after a move down and the page_end after a move up.
adjust_bounds_exchanged(s, moved, acc) ==
    IF acc.panicked
    THEN Panic(s)
    ELSE IF moved = "Up"
    THEN [s EXCEPT !.page_start = acc.a[1],
                   !.page_start_height = acc.a[2],
                   !.page_end = acc.b[1],
                   !.page_end_height = acc.b[2]]
    ELSE [s EXCEPT !.page_start = acc.b[1],
                   !.page_start_height = acc.b[2],
                   !.page_end = acc.a[1],
                   !.page_end_height = acc.a[2]]

\* The assignment of the bounds that ends adjust_page (lines 340-354); acc is
\* what the loop left.
adjust_bounds(s, moved, acc) ==
    IF acc.panicked
    THEN Panic(s)
    ELSE IF moved = "Down"
    THEN [s EXCEPT !.page_start = acc.a[1],
                   !.page_start_height = acc.a[2],
                   !.page_end = acc.b[1],
                   !.page_end_height = acc.b[2]]
    ELSE [s EXCEPT !.page_start = acc.b[1],
                   !.page_start_height = acc.b[2],
                   !.page_end = acc.a[1],
                   !.page_end_height = acc.a[2]]

adjust_page(s, moved) ==
    IF s.panicked THEN s
    ELSE IF ~is_some(s.heights) \/ s.at >= s.list.len
    THEN Panic(s)
    ELSE LET direction == IF moved = "Down" THEN -1 ELSE 1
             hs == unwrap(s.heights).heights
         IN  adjust_bounds(s, moved,
                 adjust_loop(s, direction, 1,
                     [a |-> <<s.at, hs[s.at]>>, b |-> <<s.at, hs[s.at]>>,
                      height |-> hs[s.at], panicked |-> FALSE]))

try_adjust_page(s, moved) ==
    IF s.panicked THEN s
    ELSE IF at_outside_page(s) THEN adjust_page(s, moved) ELSE s

\* Faulty variant of init_loop: fills page_size lines instead of
\* page_size - 1.
RECURSIVE init_loop_wide(_, _, _)
init_loop_wide(s, i, acc) ==
    LET max_height == page_size(s)
        hs == unwrap(s.heights).heights
    IN  IF i >= s.list.len \/ acc.height >= max_height
        THEN acc
        ELSE init_loop_wide(s, i + 1,
                 [page_end |-> i,
                  page_end_height |-> Min(acc.height + hs[i], max_height) - acc.height,
                  height |-> acc.height + hs[i]])

\* The `for i in 1..heights.len()` loop of init_page; acc holds page_end,
\* page_end_height and height.
RECURSIVE init_loop(_, _, _)
init_loop(s, i, acc) ==
    LET max_height == page_size(s) - 1
        hs == unwrap(s.heights).heights
    IN  IF i >= s.list.len \/ acc.height >= max_height
        THEN acc
        ELSE init_loop(s, i + 1,
                 [page_end |-> i,
                  page_end_height |-> Min(acc.height + hs[i], max_height) - acc.height,
                  height |-> acc.height + hs[i]])

init_page(s) ==
    IF s.panicked THEN s
    ELSE IF ~is_some(s.heights)
    THEN Panic(s)
    ELSE LET hs == unwrap(s.heights).heights
         IN  IF is_paginating(s)
             THEN LET acc == init_loop(s, 1,
                                 [page_end |-> s.page_end,
                                  page_end_height |-> s.page_end_height,
                                  height |-> hs[0]])
                  IN  [s EXCEPT !.page_start = 0,
                                !.page_start_height = hs[0],
                                !.page_end = acc.page_end,
                                !.page_end_height = acc.page_end_height]
             ELSE [s EXCEPT !.page_start = 0,
                            !.page_start_height = hs[0],
                            !.page_end = s.list.len - 1,
                            !.page_end_height = hs[s.list.len - 1]]

----------------------------------------------------------------------------
(* Select: the public operations *)

set_at(s, i) ==
    LET dir == IF s.at >= s.list.len \/ s.at < i THEN "Down" ELSE "Up"
        s1 == [s EXCEPT !.at = i]
    IN  IF is_paginating(s1)
        THEN IF i >= s.list.len THEN init_page(s1) ELSE try_adjust_page(s1, dir)
        ELSE s1

\* The keys the driver may pass.  "Left" is a Movement that Select does not
\* handle, "Char" is no Movement at all.
KeyEvents == {"Up", "Down", "Home", "End", "PageUp", "PageDown", "Left", "Char"}

Movement_try_from_key(key) == IF key = "Char" THEN None ELSE Some(key)

\* The PageUp arm that pages (lines 457-486): s2 is the state after
\* adjust_page, from which the arm picks the new `at` (lines 467-483).
page_up_select(s, s2) ==
    IF s2.panicked THEN s2
    ELSE IF s2.page_start = 0 /\ ~s.list.should_loop
    THEN init_page([s2 EXCEPT !.at = s.first_selectable])
    ELSE LET s3 == [s2 EXCEPT !.at = s2.page_start]
         IN  [s3 EXCEPT !.at = next_selectable(s3)]

page_up(s) ==
    LET got == try_get_index(s, -1)
        s1 == [s EXCEPT !.at = IF is_some(got.index) THEN unwrap(got.index) ELSE s.at]
    IN  page_up_select(s, adjust_page(s1, "Down"))

\* The PageDown arm that pages (lines 499-529): s2 is the state after the
\* first adjust_page, s3 the state after the second one.
page_down_last(s, s3) ==
    IF s3.panicked THEN s3 ELSE [s3 EXCEPT !.at = s.last_selectable]

page_down_select(s, s2) ==
    IF s2.panicked THEN s2
    ELSE IF s2.page_end + 1 = s.list.len
    THEN page_down_last(s, adjust_page([s2 EXCEPT !.at = s2.page_end], "Down"))
    ELSE LET s3 == [s2 EXCEPT !.at = s2.page_end]
         IN  [s3 EXCEPT !.at = prev_selectable(s3)]

page_down(s) ==
    LET got == try_get_index(s, 1)
        s1 == [s EXCEPT !.at = IF is_some(got.index) THEN unwrap(got.index) ELSE s.at]
    IN  page_down_select(s, adjust_page(s1, "Up"))

\* What an arm of the match yields: `return false`, or the state it leaves
\* and the Movement it evaluates to.
Stay(s) == [s |-> s, moved |-> "None", returned |-> TRUE]
Go(s1, m) == [s |-> s1, moved |-> m, returned |-> FALSE]

\* The guards of the Up and Down arms (lines 437 and 441).
up_guard(s) == s.list.should_loop \/ s.at > s.first_selectable

\* Faulty variant of down_guard: lets Down through at last_selectable.
down_guard_inclusive(s) == s.list.should_loop \/ s.at <= s.last_selectable

down_guard(s) == s.list.should_loop \/ s.at < s.last_selectable

\* The body of the PageUp arm that acts as Home (lines 451-455).
page_up_home(s) ==
    IF s.at <= s.first_selectable
    THEN Stay(s)
    ELSE Go([s EXCEPT !.at = s.first_selectable], "Up")

\* Faulty variant of page_down_end: assigns `at` before it returns false.
page_down_end_assign_first(s) ==
    IF s.at >= s.last_selectable
    THEN Stay([s EXCEPT !.at = s.last_selectable])
    ELSE Go([s EXCEPT !.at = s.last_selectable], "Down")

\* The body of the PageDown arm that acts as End (lines 493-497).
page_down_end(s) ==
    IF s.at >= s.last_selectable
    THEN Stay(s)
    ELSE Go([s EXCEPT !.at = s.last_selectable], "Down")

\* The match of handle_key: the state after the arm taken and the Movement
\* it yields, or `returned` when the arm returns false.  overflow_checks is
\* the build's setting for `self.page_end + 1` on the usize::MAX sentinel:
\* a panic when on, a wrap to 0 when off.
match_movement(s, movement, overflow_checks) ==
    LET loop == s.list.should_loop
        page_end_overflows == is_paginating(s) /\ ~loop /\ s.page_end = USIZE_MAX
        page_end_is_last ==
            IF s.page_end = USIZE_MAX THEN FALSE ELSE s.page_end + 1 = s.list.len
    IN  CASE movement = "Up" /\ up_guard(s) ->
                Go([s EXCEPT !.at = prev_selectable(s)], "Up")
          [] movement = "Down" /\ down_guard(s) ->
                Go([s EXCEPT !.at = next_selectable(s)], "Down")
          [] movement = "PageUp"
               /\ (~is_paginating(s) \/ (~loop /\ s.page_start = 0)) ->
                page_up_home(s)
          [] movement = "PageUp"
               /\ ~(~is_paginating(s) \/ (~loop /\ s.page_start = 0)) ->
                Go(page_up(s), "Up")
          [] movement = "PageDown" /\ page_end_overflows /\ overflow_checks ->
                Go(Panic(s), "Down")
          [] movement = "PageDown" /\ ~(page_end_overflows /\ overflow_checks)
               /\ (~is_paginating(s) \/ (~loop /\ page_end_is_last)) ->
                page_down_end(s)
          [] movement = "PageDown" /\ ~(page_end_overflows /\ overflow_checks)
               /\ ~(~is_paginating(s) \/ (~loop /\ page_end_is_last)) ->
                Go(page_down(s), "Down")
          [] movement = "Home" /\ s.at # s.first_selectable ->
                Go([s EXCEPT !.at = s.first_selectable], "Up")
          [] movement = "End" /\ s.at # s.last_selectable ->
                Go([s EXCEPT !.at = s.last_selectable], "Down")
          [] OTHER -> Stay(s)

\* The end of handle_key (lines 543-547) for what the match yielded.
handle_moved(m) ==
    IF m.returned
    THEN [s |-> m.s, handled |-> FALSE]
    ELSE IF m.s.panicked
    THEN [s |-> m.s, handled |-> FALSE]
    ELSE IF is_paginating(m.s)
    THEN [s |-> try_adjust_page(m.s, m.moved), handled |-> TRUE]
    ELSE [s |-> m.s, handled |-> TRUE]

\* Select::handle_key: the new state and the value returned.
handle_key(s, key, overflow_checks) ==
    LET movement == Movement_try_from_key(key)
    IN  IF ~is_some(movement)
        THEN [s |-> s, handled |-> FALSE]
        ELSE handle_moved(match_movement(s, unwrap(movement), overflow_checks))

\* Faulty variant of height_value: without the floor of the hovered item's
\* height and the footer.
height_value_no_floor(s1, layout) ==
    (IF layout.line_offset # 0 THEN 1 ELSE 0) + Min(s1.height, page_size(s1))

\* The value height returns once the heights are up to date (lines 592-608).
height_value(s1, layout) ==
    LET hs == unwrap(s1.heights).heights
        h_at == IF s1.at < s1.list.len THEN hs[s1.at] ELSE 0
    IN  (IF layout.line_offset # 0 THEN 1 ELSE 0)
          + Max(Min(s1.height, page_size(s1)),
                h_at + (IF is_paginating(s1) THEN 1 ELSE 0))

\* What height leaves behind: the state, the value returned and the
\* caller's layout after the call (lines 610-613).
height_result(s1, layout, h) ==
    [s |-> s1, value |-> h,
     layout |-> [layout EXCEPT !.line_offset = 0, !.offset_y = @ + h]]

\* Select::height.
height_fn(s, layout) ==
    LET s1 == update_heights(s, layout)
    IN  height_result(s1, layout, height_value(s1, layout))

\* The indices render hands to render_in, in order.  A range that runs past
\* the list is cut after index len: render_in panics there.
RECURSIVE range(_, _)
range(a, b) == IF a > b THEN <<>> ELSE <<a>> \o range(a + 1, b)

\* Faulty variant of render_order: a window that was never set ends at the
\* last item.
render_order_clamped(s) ==
    IF s.page_end < s.page_start
    THEN range(s.page_start, s.list.len - 1) \o range(0, s.page_end)
    ELSE range(s.page_start, Min(s.page_end, s.list.len - 1))

render_order(s) ==
    IF s.page_end < s.page_start
    THEN range(s.page_start, s.list.len - 1) \o range(0, s.page_end)
    ELSE range(s.page_start, Min(s.page_end, s.list.len))

\* Select::render_in over the indices of `order` from position j on: the
\* number of render_item calls made, the offset_y reached, and whether
\* heights[i] was read with i >= len.  Every item advances offset_y by the
\* max_height it is given: page_start_height, page_end_height or heights[i].
RECURSIVE render_in(_, _, _, _)
render_in(s, order, j, acc) ==
    IF j > Len(order)
    THEN acc
    ELSE LET i == order[j]
             hs == unwrap(s.heights).heights
         IN  IF i >= s.list.len
             THEN [acc EXCEPT !.panicked = TRUE]
             ELSE LET max_height == IF i = s.page_start THEN s.page_start_height
                                    ELSE IF i = s.page_end THEN s.page_end_height
                                    ELSE hs[i]
                  IN  render_in(s, order, j + 1,
                                [acc EXCEPT !.items = @ + 1,
                                            !.offset_y = @ + max_height])

\* Faulty variant of item_layout: Top at page_start and Bottom at page_end.
item_layout_exchanged(s, i, layout) ==
    IF i = s.page_start
    THEN [layout EXCEPT !.max_height = s.page_start_height,
                        !.render_region = "Top"]
    ELSE IF i = s.page_end
    THEN [layout EXCEPT !.max_height = s.page_end_height,
                        !.render_region = "Bottom"]
    ELSE [layout EXCEPT !.max_height = unwrap(s.heights).heights[i]]

\* The layout render_in gives render_item for index i (lines 405-414):
\* `layout` is its local copy as the item before left it.
item_layout(s, i, layout) ==
    IF i = s.page_start
    THEN [layout EXCEPT !.max_height = s.page_start_height,
                        !.render_region = "Bottom"]
    ELSE IF i = s.page_end
    THEN [layout EXCEPT !.max_height = s.page_end_height,
                        !.render_region = "Top"]
    ELSE [layout EXCEPT !.max_height = unwrap(s.heights).heights[i]]

\* The render_item calls of render_in over the indices of `order` from
\* position j on, `layout` being its local copy: index, hovered and the
\* layout passed.
RECURSIVE render_item_calls(_, _, _, _)
render_item_calls(s, order, j, layout) ==
    IF j > Len(order) \/ order[j] >= s.list.len
    THEN <<>>
    ELSE <<[index |-> order[j], hovered |-> (order[j] = s.at),
            layout |-> item_layout(s, order[j], layout)]>>
         \o render_item_calls(s, order, j + 1,
                [item_layout(s, order[j], layout) EXCEPT
                     !.offset_y = @ + item_layout(s, order[j], layout).max_height])

\* The state render works on once the cache and the window are set up
\* (lines 551-556).
render_prepare(s, layout) ==
    LET s1 == update_heights(s, layout)
    IN  IF s1.page_end = USIZE_MAX THEN init_page(s1) ELSE s1

\* The layout after the line break of lines 558-562.
render_break(layout) ==
    IF layout.line_offset # 0
    THEN [layout EXCEPT !.line_offset = 0, !.offset_y = @ + 1]
    ELSE layout

\* The end of render (lines 564-582): s1 is the prepared state, r what
\* render_in did, fail the backend call that fails (0: none).  The backend
\* calls are, in order: the cursor move of the line break, render_item and a
\* cursor move per item, the footer and its cursor move.  Gives the new
\* state, whether Ok was returned, the caller's layout after the call and
\* the number of backend calls a run without failure makes.
render_end(s1, layout, fail, r) ==
    LET l1 == render_break(layout)
        pre == IF layout.line_offset # 0 THEN 1 ELSE 0
        l2 == [l1 EXCEPT !.offset_y = r.offset_y]
        l3 == [l2 EXCEPT !.offset_y = @ + 1]
        calls == pre + 2 * r.items
                   + (IF ~r.panicked /\ is_paginating(s1) THEN 2 ELSE 0)
    IN  IF fail # 0 /\ fail <= pre + 2 * r.items
        THEN [s |-> s1, ok |-> FALSE, layout |-> l1, calls |-> calls]
        ELSE IF r.panicked
        THEN [s |-> Panic(s1), ok |-> FALSE, layout |-> l1, calls |-> calls]
        ELSE IF ~is_paginating(s1)
        THEN [s |-> s1, ok |-> TRUE, layout |-> l2, calls |-> calls]
        ELSE IF fail = pre + 2 * r.items + 1
        THEN [s |-> s1, ok |-> FALSE, layout |-> l2, calls |-> calls]
        ELSE IF fail = pre + 2 * r.items + 2
        THEN [s |-> s1, ok |-> FALSE, layout |-> l3, calls |-> calls]
        ELSE [s |-> s1, ok |-> TRUE, layout |-> l3, calls |-> calls]

\* The items render draws on the prepared state s1.
render_items(s1, layout, fail) ==
    render_end(s1, layout, fail,
        render_in(s1, render_order(s1), 1,
                  [items |-> 0, offset_y |-> render_break(layout).offset_y,
                   panicked |-> FALSE]))

\* Select::render with the backend failing at its fail-th call (0: never).
render_fn(s, layout, fail) ==
    render_items(render_prepare(s, layout), layout, fail)

----------------------------------------------------------------------------
(* The state machine *)

\* No call on the prompt or its layout has returned yet.
NoCall == [fn |-> "none", arg |-> 0, value |-> <<>>]

Self ==
    [list |-> list,
     first_selectable |-> first_selectable,
     last_selectable |-> last_selectable,
     height |-> height,
     page_start_height |-> page_start_height,
     page_end_height |-> page_end_height,
     heights |-> heights,
     at |-> at,
     page_start |-> page_start,
     page_end |-> page_end,
     panicked |-> panicked]

\* A call that panics leaves nothing to observe but the panic.
Becomes(s) ==
    /\ list' = list
    /\ first_selectable' = first_selectable
    /\ last_selectable' = last_selectable
    /\ panicked' = s.panicked
    /\ IF s.panicked
       THEN UNCHANGED <<at, page_start, page_end, page_start_height,
                        page_end_height, height, heights>>
       ELSE /\ at' = s.at
            /\ page_start' = s.page_start
            /\ page_end' = s.page_end
            /\ page_start_height' = s.page_start_height
            /\ page_end_height' = s.page_end_height
            /\ height' = s.height
            /\ heights' = s.heights
    /\ UNCHANGED <<PromptVars, InputVars>>

\* The fields of the Select after Select::new(l).
InitSelect(l) ==
    LET s == Select_new(l)
    IN  /\ list = s.list
        /\ first_selectable = s.first_selectable
        /\ last_selectable = s.last_selectable
        /\ at = s.at
        /\ page_start = s.page_start
        /\ page_end = s.page_end
        /\ page_start_height = s.page_start_height
        /\ page_end_height = s.page_end_height
        /\ height = s.height
        /\ heights = s.heights
        /\ panicked = s.panicked
        /\ rendered = FALSE

\* No Prompt is built.
PromptUnused ==
    /\ prompt = Prompt_new(0)
    /\ prompt_layout = Layout_new(0, [width |-> MinTermWidth,
                                      height |-> TermHeight])
    /\ ret = NoCall

\* Input::new(prompt), and run is not called.
Input_new ==
    /\ pc = "new"
    /\ trace = <<>>
    /\ hide_cursor = FALSE
    /\ terminal_h = 0
    /\ base_row = 0

\* The state after Select::new(l).
InitWith(l) ==
    /\ InitSelect(l)
    /\ PromptUnused
    /\ Input_new

Init == \E l \in Lists : InitWith(l)

Render(layout, fail) ==
    /\ ~panicked
    /\ \E r \in {render_fn(Self, layout, fail)} :
           /\ Becomes(r.s)
           /\ rendered' = (rendered \/ r.ok)

Height(layout) ==
    /\ ~panicked
    /\ \E r \in {height_fn(Self, layout)} : Becomes(r.s)
    /\ UNCHANGED rendered

HandleKey(key, overflow_checks) ==
    /\ ~panicked
    /\ \E r \in {handle_key(Self, key, overflow_checks)} : Becomes(r.s)
    /\ UNCHANGED rendered

SetAt(i) ==
    /\ ~panicked
    /\ \E s \in {set_at(Self, i)} : Becomes(s)
    /\ UNCHANGED rendered

\* Where the backend fails: never (0), at its first call, at the footer or at
\* the cursor move after it.  A failure at any call before the footer returns
\* as one at the first call does.
FailPoints(n) == {0, 1} \cup {k \in {n - 1, n} : k >= 1}

DoRender == \E layout \in InputLayouts :
                \E fail \in FailPoints(render_fn(Self, layout, 0).calls) :
                    Render(layout, fail)
DoHeight == \E layout \in InputLayouts : Height(layout)

\* The driver renders before it reads the first key (Input::run), and a
\* render that fails ends it, so keys and set_at come after a render that
\* returned Ok.
DoHandleKey ==
    /\ rendered
    /\ \E key \in KeyEvents :
           \E oc \in (IF page_end = USIZE_MAX THEN BOOLEAN ELSE {TRUE}) :
               HandleKey(key, oc)

DoSetAt ==
    /\ rendered
    /\ \E i \in 0..list.len : SetAt(i)

Next == DoRender \/ DoHeight \/ DoHandleKey \/ DoSetAt

Spec == Init /\ [][Next]_vars

\* The driver without set_at: renders, height queries and key presses.
NextKeys == DoRender \/ DoHeight \/ DoHandleKey

SpecKeys == Init /\ [][NextKeys]_vars

\* The driver over any list a caller may construct a Select from.
InitAny == \E l \in AnyLists : InitWith(l)

SpecAny == InitAny /\ [][Next]_vars

\* The driver that renders once and then only presses PageDown.
FirstRender == ~rendered /\ \E layout \in InputLayouts : Render(layout, 0)

PressPageDown == rendered /\ HandleKey("PageDown", TRUE)

NextPageDown == FirstRender \/ PressPageDown

SpecPageDown == Init /\ [][NextPageDown]_vars

----------------------------------------------------------------------------
(* A caller of Prompt and Layout: it builds a prompt and a layout with the  *)
(* builder methods and calls the pure operations on them.  The Select is    *)
(* not used.                                                                *)

Returned(fn, arg, value) == [fn |-> fn, arg |-> arg, value |-> value]

\* The natural heights get_start is asked about.
HeightArgs == 0..(2 * MaxHeightArg)

UnusedList ==
    [len |-> 1, selectable |-> [i \in {0} |-> TRUE],
     sizes |-> [i \in {0} |-> 1], page_size |-> MinPageSize,
     should_loop |-> FALSE]

InitPrompt ==
    /\ InitSelect(UnusedList)
    /\ \E message \in 0..MaxMessageLen : prompt = Prompt_new(message)
    /\ \E lo \in 0..MaxLineOffset, w \in MinTermWidth..MaxTermWidth :
           prompt_layout = Layout_new(lo, [width |-> w, height |-> TermHeight])
    /\ ret = NoCall
    /\ Input_new

WithHint ==
    /\ \E hint \in 0..MaxHintLen : prompt' = with_hint(prompt, hint)
    /\ ret' = NoCall
    /\ UNCHANGED prompt_layout
    /\ UNCHANGED <<SelectVars, InputVars>>

WithDelim ==
    /\ \E delim \in Delimiters : prompt' = with_delim(prompt, delim)
    /\ ret' = NoCall
    /\ UNCHANGED prompt_layout
    /\ UNCHANGED <<SelectVars, InputVars>>

WithMaxHeight ==
    /\ \E max_height \in 0..MaxHeightArg :
           prompt_layout' = with_max_height(prompt_layout, max_height)
    /\ ret' = NoCall
    /\ UNCHANGED prompt
    /\ UNCHANGED <<SelectVars, InputVars>>

WithRenderRegion ==
    /\ \E region \in RenderRegions :
           prompt_layout' = with_render_region(prompt_layout, region)
    /\ ret' = NoCall
    /\ UNCHANGED prompt
    /\ UNCHANGED <<SelectVars, InputVars>>

GetStart ==
    /\ \E h \in HeightArgs :
           ret' = Returned("get_start", h, <<get_start(prompt_layout, h)>>)
    /\ UNCHANGED <<prompt, prompt_layout>>
    /\ UNCHANGED <<SelectVars, InputVars>>

Width ==
    /\ ret' = Returned("width", 0, <<width(prompt)>>)
    /\ UNCHANGED <<prompt, prompt_layout>>
    /\ UNCHANGED <<SelectVars, InputVars>>

CursorPos ==
    /\ ret' = Returned("cursor_pos", 0, cursor_pos_impl(prompt, prompt_layout))
    /\ UNCHANGED <<prompt, prompt_layout>>
    /\ UNCHANGED <<SelectVars, InputVars>>

\* Prompt::height(&mut layout): ret.arg keeps the line_offset it was given.
PromptHeight ==
    /\ ret' = Returned("height", prompt_layout.line_offset,
                       <<Prompt_height(prompt, prompt_layout).value>>)
    /\ prompt_layout' = Prompt_height(prompt, prompt_layout).layout
    /\ UNCHANGED prompt
    /\ UNCHANGED <<SelectVars, InputVars>>

NextPrompt ==
    \/ WithHint \/ WithDelim \/ WithMaxHeight \/ WithRenderRegion
    \/ GetStart \/ Width \/ CursorPos \/ PromptHeight

SpecPrompt == InitPrompt /\ [][NextPrompt]_vars

----------------------------------------------------------------------------
(* Input::run (ui/src/sync_input.rs) over any Prompt.  What the prompt      *)
(* answers (validate, has_default, hint, handle_key) is any value of its    *)
(* type.  A handler is the sequence of its steps: a method of the prompt,   *)
(* or "io", one or more operations on the terminal that `?` guards with no  *)
(* prompt call between them.  The sizes and positions Input keeps decide    *)
(* what is written, not which methods are called; an operation on the       *)
(* terminal may fail whatever they are.  A failed operation is entered in   *)
(* trace as "failed".                                                       *)

MaxEvents == 3

Validations == {"Finish", "Continue", "Err"}

IoAt(ops) == {i \in 1..Len(ops) : ops[i] = "io"}

IsCall(op) == op # "io"

\* The steps run when the fail-th terminal operation of ops fails: all of
\* them when fail = 0.
until_failure(ops, fail) ==
    IF fail = 0
    THEN ops
    ELSE SubSeq(ops, 1,
                (CHOOSE i \in IoAt(ops) :
                     Cardinality({j \in IoAt(ops) : j <= i}) = fail) - 1)

\* Input::render
render_ops == <<"height", "io", "render", "io", "cursor_pos", "io">>

\* Faulty variant of finish_ops: the two ways to finish are exchanged.
finish_ops_exchanged(pressed_enter) ==
    <<"io", IF pressed_enter THEN "finish_default" ELSE "finish">>

\* Input::finish
finish_ops(pressed_enter) ==
    <<"io", IF pressed_enter THEN "finish" ELSE "finish_default">>

\* Input::run up to the loop.
start_ops(hide, has_hint) ==
    <<"io", "prompt", "io">>
        \o (IF hide THEN <<"io">> ELSE <<>>)
        \o <<"height", "io", "hint">>
        \o (IF has_hint THEN <<"io">> ELSE <<>>)
        \o render_ops

\* The arms of Ctrl-C and of KeyCode::Null, which return Err.
abort_ops(hide) ==
    <<"height", "io">> \o (IF hide THEN <<"io">> ELSE <<>>)

\* The arm of a validate that returned Err(e).
validate_err_ops == <<"height", "io", "cursor_pos", "io">>

IsRead(entry) == entry \in {"read:Resize", "read:CtrlC", "read:Null",
                            "read:Esc", "read:Enter", "read:Key",
                            "read:Other"}

Reads == Len(SelectSeq(trace, IsRead))

\* run does entries and then ops; it goes to next unless a terminal
\* operation fails, which returns Err.
Does(entries, ops, next) ==
    \E fail \in 0..Cardinality(IoAt(ops)) :
        /\ trace' = trace \o entries
                          \o SelectSeq(until_failure(ops, fail), IsCall)
                          \o (IF fail = 0 THEN <<>> ELSE <<"failed">>)
        /\ pc' = IF fail = 0 THEN next ELSE "err"
        /\ UNCHANGED <<hide_cursor, terminal_h, base_row, SelectVars, PromptVars>>

Reading == pc = "loop" /\ Reads < MaxEvents

Run ==
    /\ pc = "new"
    /\ \E has_hint \in BOOLEAN :
           Does(<<>>, start_ops(hide_cursor, has_hint), "loop")

\* event::read()? returns Err.
ReadFails ==
    /\ Reading
    /\ trace' = trace \o <<"failed">>
    /\ pc' = "err"
    /\ UNCHANGED <<hide_cursor, terminal_h, base_row, SelectVars, PromptVars>>

ReadResize ==
    /\ Reading
    /\ Does(<<"read:Resize">>, <<>>, "loop")

ReadOther ==
    /\ Reading
    /\ Does(<<"read:Other">>, <<>>, "loop")

ReadCtrlC ==
    /\ Reading
    /\ Does(<<"read:CtrlC">>, abort_ops(hide_cursor), "err")

ReadNull ==
    /\ Reading
    /\ Does(<<"read:Null">>, abort_ops(hide_cursor), "err")

\* The last arm: the prompt handles the key or not.
HandleKeyArm(entries) ==
    \E key_handled \in BOOLEAN :
        Does(entries \o <<IF key_handled THEN "handle_key:true"
                                           ELSE "handle_key:false">>,
             IF key_handled THEN render_ops ELSE <<>>, "loop")

ReadKey ==
    /\ Reading
    /\ HandleKeyArm(<<"read:Key">>)

ReadEsc ==
    /\ Reading
    /\ \/ Does(<<"read:Esc", "has_default:true">>, finish_ops(FALSE), "ok")
       \/ HandleKeyArm(<<"read:Esc", "has_default:false">>)

EnterArm(validation) ==
    CASE validation = "Finish" ->
             Does(<<"read:Enter", "validate:Finish">>, finish_ops(TRUE), "ok")
      [] validation = "Continue" ->
             Does(<<"read:Enter", "validate:Continue">>, render_ops, "loop")
      [] validation = "Err" ->
             Does(<<"read:Enter", "validate:Err">>, validate_err_ops, "loop")

ReadEnter ==
    /\ Reading
    /\ \E validation \in Validations : EnterArm(validation)

InitInput ==
    /\ InitSelect(UnusedList)
    /\ PromptUnused
    /\ pc = "new"
    /\ trace = <<>>
    /\ hide_cursor \in BOOLEAN
    /\ terminal_h = 0
    /\ base_row = 0

NextInput ==
    \/ Run \/ ReadFails \/ ReadResize \/ ReadOther \/ ReadCtrlC \/ ReadNull
    \/ ReadKey \/ ReadEsc \/ ReadEnter

SpecInput == InitInput /\ [][NextInput]_vars

----------------------------------------------------------------------------
(* Vocabulary of the properties *)

Indices == 0..(list.len - 1)

Paginating == is_paginating(Self)

\* The natural height of item i under the cached layout.
NaturalHeight(i) == unwrap(heights).heights[i]

\* The indices strictly between page_start and page_end, going forward from
\* page_start and wrapping past the end of the list when page_end < page_start.
Interior ==
    IF page_start <= page_end
    THEN {i \in Indices : page_start < i /\ i < page_end}
    ELSE {i \in Indices : i > page_start \/ i < page_end}

RECURSIVE SumNatural(_)
SumNatural(S) ==
    IF S = {} THEN 0
    ELSE LET i == CHOOSE x \in S : TRUE
         IN  NaturalHeight(i) + SumNatural(S \ {i})

VisibleHeight ==
    IF page_start = page_end
    THEN page_start_height
    ELSE page_start_height + SumNatural(Interior) + page_end_height

\* `at` is one of the indices render visits.
AtInWindow ==
    IF page_start <= page_end
    THEN page_start <= at /\ at <= page_end
    ELSE at >= page_start \/ at <= page_end

----------------------------------------------------------------------------
(* Properties *)

\* C1: after the first render, whatever keys are pressed, the hovered index
\* `at` is a selectable index of the list.
C1_AtSelectable ==
    rendered => (at \in Indices /\ is_selectable(list, at))

\* Keys have moved `at` past a separator of a paginating list.
C1_Witness ==
    /\ rendered /\ ~panicked /\ Paginating
    /\ \E i \in Indices :
           first_selectable < i /\ i < at /\ ~is_selectable(list, i)

\* C2: whenever the list is paginating after the first render, the visible
\* height of the window is at most page_size - 1.
C2_WindowFits ==
    (rendered /\ ~panicked /\ Paginating) => VisibleHeight <= page_size(Self) - 1

\* C3: whenever the list is paginating after the first render, `at` is one
\* of the indices of the window that render draws.
C3_AtInWindow ==
    (rendered /\ ~panicked /\ Paginating) => AtInWindow

\* C4: on a list that does not loop, pressing PageDown again and again
\* brings `at` to last_selectable, and there a further PageDown returns false
\* and changes nothing.  A press is a function of the state, so `at` gets to
\* last_selectable only if no press short of it leaves the state as it was.
C4_PageDownReachesLast ==
    (rendered /\ ~panicked /\ ~list.should_loop) =>
        LET r == handle_key(Self, "PageDown", TRUE)
        IN  IF at = last_selectable
            THEN ~r.handled /\ r.s = Self
            ELSE r.s # Self

\* C5: without looping, Up at first_selectable and Down at last_selectable
\* return false and leave `at` where it is.
C5_EdgeKeysIgnored ==
    (rendered /\ ~panicked /\ ~list.should_loop) =>
        /\ at = first_selectable =>
              LET r == handle_key(Self, "Up", TRUE)
              IN  ~r.handled /\ r.s.at = at
        /\ at = last_selectable =>
              LET r == handle_key(Self, "Down", TRUE)
              IN  ~r.handled /\ r.s.at = at

\* `at` has been moved to the far end of a list that does not loop.
C5_Witness ==
    /\ rendered /\ ~panicked /\ ~list.should_loop
    /\ first_selectable # last_selectable
    /\ at = last_selectable

\* C6: a handle_key call that returns false has changed no field of Select.
C6_UnhandledKeyChangesNothing ==
    (rendered /\ ~panicked) =>
        \A key \in KeyEvents :
            LET r == handle_key(Self, key, TRUE)
            IN  (~r.handled /\ ~r.s.panicked) => r.s = Self

\* A paginating window away from the top on which PageDown returns false.
C6_Witness ==
    /\ rendered /\ ~panicked /\ Paginating /\ page_start > 0
    /\ ~handle_key(Self, "PageDown", TRUE).handled

\* The selectable index that follows i, and the one that precedes it.
NearestAfter(i) ==
    CHOOSE j \in Indices :
        /\ j > i /\ is_selectable(list, j)
        /\ \A k \in Indices : (i < k /\ k < j) => ~is_selectable(list, k)

NearestBefore(i) ==
    CHOOSE j \in Indices :
        /\ j < i /\ is_selectable(list, j)
        /\ \A k \in Indices : (j < k /\ k < i) => ~is_selectable(list, k)

\* C7: a handled Down moves `at` from a selectable index to the nearest
\* selectable index after it, or from last_selectable round to
\* first_selectable on a looping list; a handled Up does the same backwards.
C7_StepToNearestSelectable ==
    (rendered /\ ~panicked /\ at \in Indices /\ is_selectable(list, at)) =>
        /\ LET r == handle_key(Self, "Down", TRUE)
           IN  r.handled =>
                 r.s.at = IF at = last_selectable
                          THEN first_selectable
                          ELSE NearestAfter(at)
        /\ LET r == handle_key(Self, "Up", TRUE)
           IN  r.handled =>
                 r.s.at = IF at = first_selectable
                          THEN last_selectable
                          ELSE NearestBefore(at)

\* `at` has left first_selectable and the next item is a separator that Down
\* has to skip.
C7_Witness ==
    /\ rendered /\ ~panicked
    /\ at \in Indices /\ is_selectable(list, at)
    /\ first_selectable < at /\ at < last_selectable
    /\ ~is_selectable(list, at + 1)

\* C8: on a looping list with two selectable items or more, Down and then Up
\* from a selectable index comes back to it, and so does next_selectable
\* followed by prev_selectable.
C8_DownUpRoundTrip ==
    (/\ rendered /\ ~panicked /\ list.should_loop
     /\ first_selectable # last_selectable
     /\ at \in Indices /\ is_selectable(list, at)) =>
        /\ prev_selectable([Self EXCEPT !.at = next_selectable(Self)]) = at
        /\ LET down == handle_key(Self, "Down", TRUE)
               up == handle_key(down.s, "Up", TRUE)
           IN  down.handled /\ up.handled /\ up.s.at = at

\* On a looping list `at` is at last_selectable, where Down wraps round.
C8_Witness ==
    /\ rendered /\ ~panicked /\ list.should_loop
    /\ first_selectable # last_selectable
    /\ at = last_selectable

\* C9: a second height call with the same layout returns what the first
\* returned and finds the heights cached, and the cache always holds one
\* height per item.
C9_HeightIdempotent ==
    ~panicked =>
        /\ is_some(heights) => DOMAIN unwrap(heights).heights = Indices
        /\ \A layout \in InputLayouts :
              LET first == height_fn(Self, layout)
                  second == height_fn(first.s, layout)
              IN  /\ second.value = first.value
                  /\ heights_cached(first.s, layout)
                  /\ second.s = first.s
                  /\ DOMAIN unwrap(first.s.heights).heights = Indices

\* The heights are cached for a layout that started in the middle of a line,
\* and the list is paginating.
C9_Witness ==
    /\ ~panicked /\ is_some(heights)
    /\ unwrap(heights).prev_layout.line_offset # 0
    /\ Paginating

\* Every item is one line high under `layout`.
AllOneLine(layout) ==
    \A i \in Indices : height_at(list, i, [layout EXCEPT !.line_offset = 0]) = 1

\* C10: the first render of a list of one-line items longer than the page
\* sets the window to the first page_size - 1 items, each boundary one line.
C10_FirstWindowOfOneLiners ==
    (~panicked /\ page_end = USIZE_MAX) =>
        \A layout \in InputLayouts :
            (AllOneLine(layout) /\ list.len > list.page_size) =>
                LET s1 == render_fn(Self, layout, 0).s
                IN  /\ ~s1.panicked
                    /\ s1.page_start = 0
                    /\ s1.page_end = list.page_size - 2
                    /\ s1.page_start_height = 1
                    /\ s1.page_end_height = 1

\* The first render of a list of one-line items longer than the page has
\* returned.
C10_Witness ==
    /\ rendered /\ ~panicked
    /\ list.len > list.page_size
    /\ \A i \in Indices : list.sizes[i] = 1
    /\ at = first_selectable
    /\ page_start = 0 /\ page_end = list.page_size - 2

\* C11: whenever the list is not paginating after the first render, the
\* window is the whole list: page_start = 0 and page_end = len - 1, each with
\* the natural height of its item.
C11_WholeListWhenNotPaginating ==
    (rendered /\ ~panicked /\ ~Paginating) =>
        /\ page_start = 0
        /\ page_end = list.len - 1
        /\ page_start_height = NaturalHeight(0)
        /\ page_end_height = NaturalHeight(list.len - 1)

\* C12: when the list is not paginating, or does not loop and the window
\* starts at index 0, PageUp returns what Home returns and leaves the state
\* Home leaves; when it is not paginating, or does not loop and the window
\* ends at index len - 1, PageDown does the same as End.
C12_PageKeysDegrade ==
    (rendered /\ ~panicked) =>
        /\ (~Paginating \/ (~list.should_loop /\ page_start = 0)) =>
              handle_key(Self, "PageUp", TRUE) = handle_key(Self, "Home", TRUE)
        /\ (~Paginating \/ (~list.should_loop /\ page_end + 1 = list.len)) =>
              handle_key(Self, "PageDown", TRUE) = handle_key(Self, "End", TRUE)

\* init_page assigns page_end: the list is not paginating, or the loop of
\* lines 375-384 gets past its `break` at least once.
init_page_assigns_end(s) ==
    \/ ~is_paginating(s)
    \/ /\ 1 < s.list.len
       /\ unwrap(s.heights).heights[0] < page_size(s) - 1

\* C13: a call that sets the window up again (set_at with an index >= len on
\* a paginating list, which runs init_page) assigns page_end along with
\* page_start; it never returns with page_start written and page_end kept
\* from an earlier computation.
C13_BoundsWrittenTogether ==
    (rendered /\ ~panicked) =>
        \A i \in list.len..(list.len + 1) :
            LET s1 == [Self EXCEPT !.at = i]
            IN  is_paginating(s1) => init_page_assigns_end(s1)

\* C14: a render during which a backend write fails returns the error and
\* leaves at, page_start and page_end as they were before the call, on the
\* first render as on any other.
C14_FailedRenderKeepsWindow ==
    ~panicked =>
        \A layout \in InputLayouts :
            \A fail \in FailPoints(render_fn(Self, layout, 0).calls) \ {0} :
                LET r == render_fn(Self, layout, fail)
                IN  (~r.ok /\ ~r.s.panicked) =>
                        /\ r.s.at = at
                        /\ r.s.page_start = page_start
                        /\ r.s.page_end = page_end

\* C15: first_selectable is the smallest selectable index and last_selectable
\* the largest, so first_selectable <= last_selectable and both are
\* selectable; a Select starts with at = first_selectable; and no operation
\* changes first_selectable or last_selectable.
C15_SelectableBounds ==
    /\ first_selectable \in Indices /\ last_selectable \in Indices
    /\ is_selectable(list, first_selectable)
    /\ is_selectable(list, last_selectable)
    /\ \A i \in Indices :
           is_selectable(list, i) => (first_selectable <= i /\ i <= last_selectable)
    /\ first_selectable <= last_selectable
    /\ (~rendered /\ ~panicked) => at = first_selectable

\* Keys have moved `at` to last_selectable on a list whose first item is a
\* separator.
C15_Witness ==
    /\ rendered /\ ~panicked
    /\ first_selectable > 0 /\ first_selectable < last_selectable
    /\ at = last_selectable

\* C16: Select::new aborts, and no Select exists to operate on, exactly when
\* the list has no selectable item (an empty list included) or its page_size
\* is below 5.
C16_NewAborts ==
    LET none == ~\E i \in Indices : is_selectable(list, i)
        short == list.page_size < MinPageSize
    IN  /\ Select_new(list).panicked <=> (none \/ short)
        /\ (none \/ short) =>
              /\ panicked /\ ~rendered
              /\ heights = None /\ page_end = USIZE_MAX

\* Select::new has aborted on a list that has a selectable item but too
\* small a page_size.
C16_Witness ==
    /\ panicked /\ ~rendered
    /\ \E i \in Indices : is_selectable(list, i)
    /\ list.page_size < MinPageSize

\* The natural height of item i under `layout`, and the sum over a set of
\* items.
NaturalUnder(layout, i) == height_at(list, i, [layout EXCEPT !.line_offset = 0])

RECURSIVE SumUnder(_, _)
SumUnder(layout, S) ==
    IF S = {} THEN 0
    ELSE LET i == CHOOSE x \in S : TRUE
         IN  NaturalUnder(layout, i) + SumUnder(layout, S \ {i})

\* C17: height returns (1 if layout.line_offset # 0, else 0)
\* + max(min(total natural height, page_size), h_at + p), with h_at the
\* hovered item's natural height (0 when at >= len) and p = 1 when
\* paginating; so it is at least h_at + p.  It sets layout.line_offset to 0
\* and adds the value returned to layout.offset_y.
C17_HeightFormula ==
    ~panicked =>
        \A layout \in InputLayouts :
            LET r == height_fn(Self, layout)
                total == SumUnder(layout, Indices)
                h_at == IF at < list.len THEN NaturalUnder(layout, at) ELSE 0
                p == IF total > list.page_size THEN 1 ELSE 0
                lo == IF layout.line_offset # 0 THEN 1 ELSE 0
            IN  /\ r.value = lo + Max(Min(total, list.page_size), h_at + p)
                /\ r.value >= h_at + p
                /\ r.layout.line_offset = 0
                /\ r.layout.offset_y = layout.offset_y + r.value
                /\ r.layout = [layout EXCEPT !.line_offset = 0,
                                             !.offset_y = layout.offset_y + r.value]

\* The hovered item of a paginating list is as tall as the page, so that its
\* height and the footer exceed page_size.
C17_Witness ==
    /\ rendered /\ ~panicked /\ Paginating
    /\ at \in Indices
    /\ NaturalHeight(at) + 1 > list.page_size

\* C18: after the first render, a render with layout L that returns Ok
\* advances layout.offset_y by the value height returns for the same L, and
\* both leave layout.line_offset at 0.
C18_RenderAdvancesByHeight ==
    (rendered /\ ~panicked) =>
        \A layout \in InputLayouts :
            LET r == render_fn(Self, layout, 0)
                h == height_fn(Self, layout)
            IN  r.ok =>
                    /\ r.layout.offset_y - layout.offset_y = h.value
                    /\ r.layout.line_offset = 0
                    /\ h.layout.line_offset = 0

\* C19: after the first render, set_at with any index, values >= len
\* included, followed by any handle_key, render and height calls never reads
\* an item height or a list element at an index >= len and never fails: no
\* call panics.
C19_SetAtNeverFails ==
    rendered => ~panicked

\* C20: on a list that does not loop the window never wraps: after the first
\* render page_start <= page_end in every state.
C20_NoWrapWithoutLoop ==
    (rendered /\ ~list.should_loop) => page_start <= page_end

\* Paging down and back up has moved the window of a paginating list that
\* does not loop away from the top and then back.
C20_Witness ==
    /\ rendered /\ ~panicked /\ ~list.should_loop /\ Paginating
    /\ 0 < page_start /\ page_start < page_end /\ page_end < list.len - 1

----------------------------------------------------------------------------
(* Layout and Prompt *)

\* The start Layout::get_start is to return for an item h lines tall: the
\* item is cut only when it is taller than max_height, at the top for
\* Bottom, at the bottom for Top, and evenly with the odd line cut at the
\* bottom for Middle.
StartIs(layout, h, start) ==
    IF h <= layout.max_height
    THEN start = 0
    ELSE /\ layout.render_region = "Top" => start = 0
         /\ layout.render_region = "Bottom" => start = h - layout.max_height
         /\ layout.render_region = "Middle" =>
                /\ 2 * start <= h - layout.max_height
                /\ 2 * start + 1 >= h - layout.max_height
         /\ start >= 0
         /\ start + layout.max_height <= h

\* C21: get_start(h) is 0 when h <= max_height; when h > max_height it is 0
\* for Top, h - max_height for Bottom and floor((h - max_height) / 2) for
\* Middle, and then it never exceeds h - max_height: the max_height lines
\* from the start on lie within the item.
C21_GetStart ==
    /\ \A h \in HeightArgs :
           StartIs(prompt_layout, h, get_start(prompt_layout, h))
    /\ ret.fn = "get_start" => StartIs(prompt_layout, ret.arg, ret.value[1])

\* get_start has returned 1 for a Middle item 3 lines taller than max_height.
C21_Witness ==
    /\ ret.fn = "get_start"
    /\ prompt_layout.render_region = "Middle"
    /\ ret.arg - prompt_layout.max_height = 3
    /\ ret.value = <<1>>

\* The width of prompt p is w: prefix, message, and then either the arrow
\* and a space or a space, the hint in its delimiters and a space.
WidthIs(p, w) ==
    IF p.hint = None
    THEN w = 2 + p.message_len + 3
    ELSE \E d \in {p.hint_len, p.hint_len + 2} :
             /\ d = p.hint_len <=> p.delim = "None"
             /\ w = 2 + p.message_len + 1 + d + 1

\* C22: Prompt::width is 2 + message_len + 3 without a hint and
\* 2 + message_len + 1 + d + 1 with one, where d is hint_len + 2 for every
\* delimiter but Delimiter::None and hint_len for Delimiter::None; setting a
\* delimiter on a prompt without a hint does not change the width.
C22_PromptWidth ==
    /\ WidthIs(prompt, width(prompt))
    /\ ret.fn = "width" => WidthIs(prompt, ret.value[1])
    /\ prompt.hint = None =>
           \A delim \in Delimiters :
               width(with_delim(prompt, delim)) = width(prompt)

\* width has returned for a prompt with a hint and Delimiter::None.
C22_Witness ==
    /\ ret.fn = "width"
    /\ is_some(prompt.hint)
    /\ prompt.hint_len = 1
    /\ prompt.delim = "None"
    /\ ret.value = <<2 + prompt.message_len + 1 + 1 + 1>>

\* pos is where the cursor stands after a prompt w cells wide written at
\* line_offset of layout: on the first line when the prompt fits in the
\* rest of it, else the cells beyond that line fill whole terminal lines
\* below it.
CursorIs(layout, w, pos) ==
    LET rest == layout.width - layout.line_offset - layout.offset_x
    IN  IF w <= rest
        THEN pos = <<layout.line_offset + w, 0>>
        ELSE /\ pos[1] \in 0..(layout.width - 1)
             /\ pos[2] >= 1
             /\ (pos[2] - 1) * layout.width + pos[1] = w - rest

\* C23: the cursor of a prompt of width w is at (line_offset + w, 0) when
\* w <= line_width(), and otherwise, with r = w - line_width(), at
\* (r mod terminal width, 1 + floor(r / terminal width)); Prompt::height
\* returns the cursor row plus 1.
C23_CursorPos ==
    /\ CursorIs(prompt_layout, width(prompt),
                cursor_pos_impl(prompt, prompt_layout))
    /\ ret.fn = "cursor_pos" =>
           CursorIs(prompt_layout, width(prompt), ret.value)
    /\ Prompt_height(prompt, prompt_layout).value
           = cursor_pos_impl(prompt, prompt_layout)[2] + 1
    /\ ret.fn = "height" =>
           \E pos \in (0..prompt_layout.width) \X {ret.value[1] - 1} :
               CursorIs([prompt_layout EXCEPT !.line_offset = ret.arg],
                        width(prompt), pos)

\* cursor_pos has returned a position on the second line below the prompt's
\* first one.
C23_Witness ==
    /\ ret.fn = "cursor_pos"
    /\ width(prompt) > line_width(prompt_layout)
    /\ ret.value[2] = 2
    /\ ret.value[1] > 0

----------------------------------------------------------------------------
(* Input::run *)

Finishes == {"finish", "finish_default"}

FinishedAt == {i \in 1..Len(trace) : trace[i] \in Finishes}

\* The position of the last event read, 0 when none was.
LastRead ==
    IF \E i \in 1..Len(trace) : IsRead(trace[i])
    THEN CHOOSE i \in 1..Len(trace) :
             /\ IsRead(trace[i])
             /\ \A j \in (i + 1)..Len(trace) : ~IsRead(trace[j])
    ELSE 0

\* C24: Prompt::finish is called only directly after a validate that Enter
\* triggered returned Validation::Finish, Prompt::finish_default only when
\* Esc is pressed while has_default() is true, each at most once, and after
\* either the loop reads no further event; after a validate that returned
\* Err or Validation::Continue neither is called and, unless writing to the
\* terminal fails, the loop goes on reading.
C24_FinishProtocol ==
    /\ \A i \in FinishedAt :
           /\ i >= 3
           /\ trace[i] = "finish" =>
                  trace[i - 1] = "validate:Finish" /\ trace[i - 2] = "read:Enter"
           /\ trace[i] = "finish_default" =>
                  trace[i - 1] = "has_default:true" /\ trace[i - 2] = "read:Esc"
           /\ i = Len(trace)
           /\ pc = "ok"
    /\ Cardinality(FinishedAt) <= 1
    /\ pc = "ok" => FinishedAt # {}
    /\ \A i \in 1..Len(trace) :
           trace[i] \in {"validate:Continue", "validate:Err"} =>
               /\ \A j \in (i + 1)..Len(trace) :
                      trace[j] \in Finishes => LastRead > i
               /\ (LastRead = i - 1 /\ trace[Len(trace)] # "failed") =>
                      pc = "loop"

\* Enter was pressed twice: validate returned Err, the loop read on, then
\* validate returned Finish and finish was called.
C24_Witness ==
    /\ pc = "ok"
    /\ Len(trace) >= 3
    /\ trace[Len(trace)] = "finish"
    /\ \E i \in 1..Len(trace) : trace[i] = "validate:Err"

----------------------------------------------------------------------------
(* The window of Select, continued *)

\* C25: once a render has returned Ok, whatever the heights of the items,
\* page_end is no longer usize::MAX, and in that state and every later one
\* 0 <= page_start < len and 0 <= page_end < len.
C25_WindowInitialised ==
    rendered =>
        /\ page_end # USIZE_MAX
        /\ 0 <= page_start /\ page_start < list.len
        /\ 0 <= page_end /\ page_end < list.len

\* A paginating list with an item of several lines, after a render and keys
\* that moved the window off the first item.
C25_Witness ==
    /\ rendered
    /\ ~panicked
    /\ is_paginating(Self)
    /\ \E i \in 0..(list.len - 1) : unwrap(heights).heights[i] > 1
    /\ page_start > 0
    /\ page_end < list.len

\* `i` lies strictly between page_start and page_end, going forward from
\* page_start and wrapping past the end of the list when page_end < page_start.
StrictlyInside(i) == i \in Interior

\* The direction handle_key gives try_adjust_page for a key.
MovedBy(key) == IF key \in {"Up", "Home"} THEN "Up" ELSE "Down"

\* C26: while paginating, a handled Up, Down, Home or End that leaves `at`
\* strictly inside the window leaves page_start, page_end, page_start_height
\* and page_end_height as they were; the window is recomputed exactly when
\* the new `at` is at or beyond a boundary.
C26_WindowKeptInside ==
    (rendered /\ ~panicked /\ Paginating) =>
        \A key \in {"Up", "Down", "Home", "End"} :
            LET r == handle_key(Self, key, TRUE)
            IN  r.handled =>
                    IF StrictlyInside(r.s.at)
                    THEN /\ r.s.page_start = page_start
                         /\ r.s.page_end = page_end
                         /\ r.s.page_start_height = page_start_height
                         /\ r.s.page_end_height = page_end_height
                    ELSE r.s = adjust_page([Self EXCEPT !.at = r.s.at],
                                           MovedBy(key))

\* The indices one step after and one step before i: past the ends of the
\* list there is one only when it loops.
StepAfter(i) ==
    IF i + 1 < list.len THEN {i + 1}
    ELSE IF list.should_loop THEN {0} ELSE {}

StepBefore(i) ==
    IF i > 0 THEN {i - 1}
    ELSE IF list.should_loop THEN {list.len - 1} ELSE {}

\* C27: after adjust_page(Down), page_end is `at` itself or the index one
\* step after `at`, and then page_end_height is exactly 1 whatever the
\* natural height of that item; after adjust_page(Up), page_start is `at` or
\* the index one step before `at`, and then page_start_height is exactly 1.
C27_OppositeNeighbourOneLine ==
    (rendered /\ ~panicked) =>
        \A i \in Indices :
            /\ LET s == adjust_page([Self EXCEPT !.at = i], "Down")
               IN  ~s.panicked =>
                       \/ s.page_end = i
                       \/ s.page_end \in StepAfter(i) /\ s.page_end_height = 1
            /\ LET s == adjust_page([Self EXCEPT !.at = i], "Up")
               IN  ~s.panicked =>
                       \/ s.page_start = i
                       \/ s.page_start \in StepBefore(i)
                              /\ s.page_start_height = 1

\* A move down has put an item of several lines one step after `at`, as the
\* page_end, with one line shown.
C27_Witness ==
    /\ rendered /\ ~panicked /\ Paginating
    /\ at \in Indices
    /\ page_end = at + 1
    /\ page_end < list.len
    /\ NaturalHeight(page_end) > 1
    /\ page_end_height = 1
    /\ adjust_page(Self, "Down") = Self

\* The k-th index of the window of s in the order render visits it.
WindowIndex(s, k) == (s.page_start + k - 1) % s.list.len

WindowLen(s) ==
    IF s.page_start <= s.page_end
    THEN s.page_end - s.page_start + 1
    ELSE s.list.len - s.page_start + s.page_end + 1

\* What every successful render does, r being what render_fn gave for
\* `layout` and calls the render_item calls it made: one call per index of
\* the window in window order, hovered for `at` alone, the first item cut to
\* page_start_height from the bottom, and the footer written if and only if
\* the list is paginating.
RenderDraws(r, layout, calls) ==
    /\ Len(calls) = WindowLen(r.s)
    /\ \A k \in 1..Len(calls) :
           /\ calls[k].index = WindowIndex(r.s, k)
           /\ calls[k].hovered <=> calls[k].index = r.s.at
           /\ calls[k].index = r.s.page_start =>
                  /\ calls[k].layout.max_height = r.s.page_start_height
                  /\ calls[k].layout.render_region = "Bottom"
    /\ (r.calls = (IF layout.line_offset # 0 THEN 1 ELSE 0)
                      + 2 * Len(calls) + 2)
           <=> is_paginating(r.s)
    /\ (r.calls = (IF layout.line_offset # 0 THEN 1 ELSE 0) + 2 * Len(calls))
           <=> ~is_paginating(r.s)

\* The page_end item is cut to page_end_height from the top.
EndItemFromTop(r, calls) ==
    \A k \in 1..Len(calls) :
        calls[k].index = r.s.page_end =>
            /\ calls[k].layout.max_height = r.s.page_end_height
            /\ calls[k].layout.render_region = "Top"

\* The same for a page_end item that is not the page_start item as well.
OtherEndItemFromTop(r, calls) ==
    \A k \in 1..Len(calls) :
        (calls[k].index = r.s.page_end /\ r.s.page_end # r.s.page_start) =>
            /\ calls[k].layout.max_height = r.s.page_end_height
            /\ calls[k].layout.render_region = "Top"

RenderCallsOf(r, layout) ==
    render_item_calls(r.s, render_order(r.s), 1, render_break(layout))

\* C28 as stated: a successful render calls render_item exactly once for
\* each index of the window and in window order, hovered = true only for
\* `at`, gives the page_start item max_height page_start_height with region
\* Bottom and the page_end item page_end_height with region Top, and writes
\* the footer if and only if is_paginating().
C28_RenderCalls ==
    ~panicked =>
        \A layout \in InputLayouts :
            render_fn(Self, layout, 0).ok =>
                /\ RenderDraws(render_fn(Self, layout, 0), layout,
                       RenderCallsOf(render_fn(Self, layout, 0), layout))
                /\ EndItemFromTop(render_fn(Self, layout, 0),
                       RenderCallsOf(render_fn(Self, layout, 0), layout))

\* C28, amended: as above, but the page_end item is given page_end_height
\* with region Top only when it is not the page_start item too; the only
\* item of a one-item window is given page_start_height with region Bottom.
C28_RenderCallsAmended ==
    ~panicked =>
        \A layout \in InputLayouts :
            render_fn(Self, layout, 0).ok =>
                /\ RenderDraws(render_fn(Self, layout, 0), layout,
                       RenderCallsOf(render_fn(Self, layout, 0), layout))
                /\ OtherEndItemFromTop(render_fn(Self, layout, 0),
                       RenderCallsOf(render_fn(Self, layout, 0), layout))

\* A render has drawn a wrapped window of a paginating list whose page_end
\* item is cut, and drawing it again succeeds.
C28_Witness ==
    /\ rendered /\ ~panicked /\ Paginating
    /\ page_end < page_start
    /\ page_end_height < NaturalHeight(page_end)
    /\ at \notin {page_start, page_end}
    /\ \E layout \in InputLayouts :
           /\ render_fn(Self, layout, 0).ok
           /\ render_fn(Self, layout, 0).s = Self

\* `at` stepped forward by one, as the paging arm of PageDown starts.
SteppedForward(s) ==
    [s EXCEPT !.at = IF is_some(try_get_index(s, 1).index)
                     THEN unwrap(try_get_index(s, 1).index) ELSE s.at]

\* `at` seated at page_end and retreated to the previous selectable item.
SeatedAtEnd(s2) ==
    [s2 EXCEPT !.at = prev_selectable([s2 EXCEPT !.at = s2.page_end])]

\* The window s2 that adjust_page(Up) left ends at the last index of a list
\* that does not loop: the mirror image of the test of the PageUp arm.
EndsAtLast(s2) == s2.page_end + 1 = s2.list.len /\ ~s2.list.should_loop

\* PageDown pages from the reachable state: the arm that acts as End is not
\* taken.
PageDownPages ==
    /\ rendered /\ ~panicked /\ Paginating
    /\ ~(~list.should_loop /\ page_end + 1 = list.len)

\* C29: in its paging branch PageDown steps `at` forward by one and runs
\* adjust_page(Up); it snaps to End only if the resulting window ends at the
\* last index and looping is off, and otherwise, on looping lists too, seats
\* `at` at the new page_end and retreats to the previous selectable item, as
\* the mirror image of PageUp does.
C29_PageDownMirrorsPageUp ==
    (PageDownPages
         /\ ~adjust_page(SteppedForward(Self), "Up").panicked
         /\ ~EndsAtLast(adjust_page(SteppedForward(Self), "Up"))) =>
        handle_key(Self, "PageDown", TRUE).s
            = handle_moved(Go(SeatedAtEnd(adjust_page(SteppedForward(Self),
                                                      "Up")), "Down")).s

\* The cache of s is the one computed for `layout`: keyed by it, one entry
\* per item that is the item's height under it with line_offset 0, and
\* `height` their sum.
CacheIsFor(s, layout) ==
    /\ is_some(s.heights)
    /\ unwrap(s.heights).prev_layout = layout
    /\ DOMAIN unwrap(s.heights).heights = Indices
    /\ \A i \in Indices :
           unwrap(s.heights).heights[i] = NaturalUnder(layout, i)
    /\ s.height = SumUnder(layout, Indices)

\* s is what a call with `layout` left: the cache is the one for `layout`,
\* and it is the cache and the height of before when that was keyed by
\* `layout` already.
CacheAfter(s, layout) ==
    s.panicked
        \/ /\ CacheIsFor(s, layout)
           /\ (is_some(heights) /\ unwrap(heights).prev_layout = layout) =>
                  s.heights = heights /\ s.height = height

\* C30: after any render or height call with layout L the cache is keyed by
\* L, entry i is height_at(i, L with line_offset 0) for every i < len and
\* `height` is the sum of the entries; a call with a layout that differs
\* from the cached one replaces the whole cache, one with an equal layout
\* changes nothing of it.
C30_HeightCache ==
    ~panicked =>
        /\ is_some(heights) => CacheIsFor(Self, unwrap(heights).prev_layout)
        /\ \A layout \in InputLayouts :
               /\ CacheAfter(height_fn(Self, layout).s, layout)
               /\ \A fail \in FailPoints(render_fn(Self, layout, 0).calls) :
                      CacheAfter(render_fn(Self, layout, fail).s, layout)

\* The cache was replaced: the window was set when the items were other
\* heights than the cache holds now.
C30_Witness ==
    /\ rendered /\ ~panicked
    /\ unwrap(heights).prev_layout.line_offset # 0
    /\ page_end \in Indices
    /\ page_end_height > NaturalHeight(page_end)
    /\ height = SumNatural(Indices)

----------------------------------------------------------------------------
(* Paging and stepping through the list *)

\* Index i is one of the indices render visits for the window of s.
InWindowOf(s, i) ==
    IF s.page_start <= s.page_end
    THEN s.page_start <= i /\ i <= s.page_end
    ELSE i >= s.page_start \/ i <= s.page_end

\* C31: after a handled PageDown or PageUp taken through the paging branch,
\* the item that was hovered before the key press is still inside the
\* visible window.
C31_PagingKeepsHoveredVisible ==
    /\ PageDownPages =>
           (handle_key(Self, "PageDown", TRUE).handled =>
                InWindowOf(handle_key(Self, "PageDown", TRUE).s, at))
    /\ (/\ rendered /\ ~panicked /\ Paginating
        /\ ~(~list.should_loop /\ page_start = 0)) =>
           (handle_key(Self, "PageUp", TRUE).handled =>
                InWindowOf(handle_key(Self, "PageUp", TRUE).s, at))

\* C32: on a list that does not loop, every handle_key(PageDown) that
\* returns true strictly increases `at`, and every handle_key(PageUp) that
\* returns true strictly decreases `at`, wherever the items that are not
\* selectable are.
C32_PagingMovesStrictly ==
    (rendered /\ ~panicked /\ ~list.should_loop) =>
        /\ handle_key(Self, "PageDown", TRUE).handled =>
               handle_key(Self, "PageDown", TRUE).s.at > at
        /\ handle_key(Self, "PageUp", TRUE).handled =>
               handle_key(Self, "PageUp", TRUE).s.at < at

\* The results of n presses of Down in a row, the first one in state s.
RECURSIVE press_down(_, _)
press_down(s, n) ==
    IF n = 0 THEN <<>>
    ELSE LET r == handle_key(s, "Down", TRUE)
         IN  <<r>> \o press_down(r.s, n - 1)

Selectables == {i \in Indices : is_selectable(list, i)}

\* C33: on a list that does not loop, pressing Down repeatedly from
\* first_selectable hovers every selectable index in increasing order, is at
\* last_selectable after exactly (number of selectable items - 1) handled
\* presses, and the next press returns false; on a looping list, pressing
\* Down (number of selectable items) times brings `at` back to where it
\* started.
C33_DownWalksSelectables ==
    (rendered /\ ~panicked /\ at \in Selectables) =>
        LET n == Cardinality(Selectables)
            p == press_down(Self, n)
        IN  IF list.should_loop
            THEN /\ \A k \in 1..n : p[k].handled
                 /\ p[n].s.at = at
            ELSE at = first_selectable =>
                     /\ \A k \in 1..(n - 1) :
                            /\ p[k].handled
                            /\ p[k].s.at \in Selectables
                            /\ Cardinality({i \in Selectables : i <= p[k].s.at})
                                   = k + 1
                     /\ n > 1 => p[n - 1].s.at = last_selectable
                     /\ ~p[n].handled
                     /\ p[n].s.at = last_selectable

C33_Witness ==
    /\ rendered /\ ~panicked /\ Paginating
    /\ ~list.should_loop
    /\ at = first_selectable
    /\ Cardinality(Selectables) >= 3
    /\ \E i \in Indices :
           first_selectable < i /\ i < last_selectable /\ ~is_selectable(list, i)
    /\ press_down(Self, Cardinality(Selectables))[2].s.at = last_selectable

----------------------------------------------------------------------------
(* A Select that was constructed and never rendered *)

FreshHandleKey ==
    /\ ~rendered /\ heights = None
    /\ \E key \in KeyEvents : \E oc \in BOOLEAN : HandleKey(key, oc)

FreshSetAt ==
    /\ ~rendered /\ heights = None
    /\ \E i \in 0..list.len : SetAt(i)

SpecFresh == Init /\ [][FreshHandleKey \/ FreshSetAt]_vars

\* C34: on a Select that was constructed and neither rendered nor asked for
\* its height (no height cache, page_end = usize::MAX), handle_key with any
\* key and set_at with any index complete: none panics on the absent height
\* cache or on page_end + 1.
C34_FreshCallsComplete ==
    (~rendered /\ heights = None /\ page_end = USIZE_MAX) => ~panicked

----------------------------------------------------------------------------
(* The heights of the two boundary items *)

\* C35: in every state after the first render, also after a render or a
\* height call whose layout changed the heights of the items,
\* page_start_height is at least 1 and at most the natural height of item
\* page_start under the cached layout, and page_end_height is at least 1 and
\* at most the natural height of item page_end.
C35_BoundaryHeightsWithinNatural ==
    (rendered /\ ~panicked) =>
        /\ 1 <= page_start_height
        /\ page_start_height <= NaturalHeight(page_start)
        /\ 1 <= page_end_height
        /\ page_end_height <= NaturalHeight(page_end)

----------------------------------------------------------------------------
(* The column of the cursor after the prompt *)

\* C36: for every prompt and every layout with
\* line_offset + offset_x <= width, the column that Prompt::cursor_pos
\* returns is strictly less than the width of the terminal, also when the
\* prompt exactly fills the columns that remain on the current line.
C36_CursorColumnInsideTerminal ==
    (/\ ret.fn = "cursor_pos"
     /\ prompt_layout.line_offset + prompt_layout.offset_x <= prompt_layout.width)
        => ret.value[1] < prompt_layout.width

----------------------------------------------------------------------------
(* Input::adjust_scrollback (ui/src/sync_input.rs) *)

MaxPromptHeight == 9

\* adjust_scrollback on an Input with base_row b and terminal_h th.  Both
\* th - height (usize) and base_row -= dist (u16) panic on underflow in a
\* build with overflow checks and wrap without them; dist is
\* (base_row + height - th + 1) as u16.
adjust_scrollback(b, th, h, overflow_checks) ==
    IF h > th /\ overflow_checks
    THEN [panicked |-> TRUE, dist |-> 0, value |-> b]
    ELSE IF b >= (IF h > th THEN (USIZE_MAX - (h - th)) + 1 ELSE th - h)
    THEN IF u16(b + h - th + 1) > b /\ overflow_checks
         THEN [panicked |-> TRUE, dist |-> u16(b + h - th + 1), value |-> b]
         ELSE [panicked |-> FALSE, dist |-> u16(b + h - th + 1),
               value |-> u16(b - u16(b + h - th + 1))]
    ELSE [panicked |-> FALSE, dist |-> 0, value |-> b]

\* run has read the size of the terminal and the row of the cursor
\* (lines 137-150).
InitScroll ==
    /\ InitSelect(UnusedList)
    /\ PromptUnused
    /\ pc = "loop"
    /\ trace = <<>>
    /\ hide_cursor = FALSE
    /\ terminal_h \in 1..TermHeight
    /\ base_row \in 0..(terminal_h - 1)

\* self.base_row = self.adjust_scrollback(height, stdout)? (line 89); queue!
\* runs, and may return Err, only in the arm that scrolls.
AdjustScrollback ==
    /\ pc = "loop" /\ ~panicked
    /\ \E h \in 0..MaxPromptHeight, overflow_checks \in BOOLEAN :
           \E fail \in (IF base_row + h >= terminal_h /\ h <= terminal_h
                        THEN BOOLEAN ELSE {FALSE}) :
               LET r == adjust_scrollback(base_row, terminal_h, h,
                                          overflow_checks)
               IN  /\ ret' = Returned("adjust_scrollback", h,
                                      IF r.panicked \/ fail
                                      THEN <<base_row, terminal_h>>
                                      ELSE <<base_row, terminal_h,
                                             r.value, r.dist>>)
                   /\ panicked' = r.panicked
                   /\ pc' = IF ~r.panicked /\ fail THEN "err" ELSE pc
                   /\ base_row' = IF r.panicked \/ fail
                                  THEN base_row ELSE r.value
    /\ UNCHANGED <<list, first_selectable, last_selectable, at, page_start,
                   page_end, page_start_height, page_end_height, height,
                   heights, rendered>>
    /\ UNCHANGED <<prompt, prompt_layout, trace, hide_cursor, terminal_h>>

\* Event::Resize(tw, th) (lines 174-177).
Resize ==
    /\ pc = "loop" /\ ~panicked
    /\ \E th \in 1..TermHeight : terminal_h' = th
    /\ ret' = NoCall
    /\ UNCHANGED <<SelectVars, prompt, prompt_layout, pc, trace, hide_cursor,
                   base_row>>

SpecScroll == InitScroll /\ [][AdjustScrollback \/ Resize]_vars

\* C37: adjust_scrollback(height) on an Input with base_row < terminal_h
\* returns a row r with r + height < terminal_h for every height, returns
\* base_row when base_row + height < terminal_h already, and otherwise
\* scrolls by exactly base_row + height - terminal_h + 1 lines; neither
\* terminal_h - height nor base_row - dist underflows.
C37_ScrollbackFits ==
    (ret.fn = "adjust_scrollback" /\ ret.value[1] < ret.value[2]) =>
        /\ ~panicked
        /\ Len(ret.value) = 4 =>
               /\ ret.value[3] + ret.arg < ret.value[2]
               /\ ret.value[1] + ret.arg < ret.value[2] =>
                      ret.value[3] = ret.value[1] /\ ret.value[4] = 0
               /\ ret.value[1] + ret.arg >= ret.value[2] =>
                      /\ ret.value[4] = ret.value[1] + ret.arg - ret.value[2] + 1
                      /\ ret.value[3] = ret.value[1] - ret.value[4]

====
